---------------------------- MODULE Spec2Model ----------------------------
(***************************************************************************)
(* Model of the long-range sync core of harmony:                           *)
(*   - the stream request manager                                          *)
(*       (p2p/stream/common/requestmanager/requestmanager.go), checked     *)
(*       under the specification Spec;                                     *)
(*   - the staged stream sync engine                                       *)
(*       (api/service/stagedstreamsync/staged_stream_sync.go), checked     *)
(*       under the specification EngineSpec;                               *)
(*   - the Bodies stage (stage_bodies.go): its bulk download and Revert,   *)
(*       checked under BodiesSpec, and its bad-block re-download together  *)
(*       with the engine's stream-count preflight, checked under           *)
(*       RedownloadSpec.                                                   *)
(* FairSpec and RedownloadFairSpec add the fairness of the request         *)
(* manager's loop and of the re-download loop.  The components share no    *)
(* state; each specification leaves the other components' variables        *)
(* untouched.                                                              *)
(***************************************************************************)
EXTENDS Integers, Sequences, FiniteSets, TLC

(***************************************************************************)
(* Bounds of the model.                                                    *)
(***************************************************************************)
\* request objects created by DoRequest
MaxReqs == 2
\* distinct stream ids known to the stream manager
NumStreams == 2
\* values the request id generator can yield (0 .. NumIDs-1); at least MaxReqs,
\* so that genReqID always finds an id that is not in pendings
NumIDs == 2
\* times one stream id can be (re-)added as a new stream object
MaxInc == 2
\* capacity of each waiting queue (stands for maxWaitingSize)
MaxWaiting == 1
\* assignments attempted per throttle pulse (stands for throttleBatch)
ThrottleBatch == 2

\* stages of the engine's stage list
NumStages == 3
\* block numbers (stage progress, revert points) range over 0 .. MaxBN
MaxBN == 1
\* calls of RevertTo the handlers make in one cycle
MaxReverts == 1
\* calls of Run
MaxCycles == 2
\* workers of the Bodies download (config.Concurrency)
NumWorkers == 2
\* block heights range over 0 .. MaxHeight
MaxHeight == 2
\* calls of StageBodies.Exec
MaxExecs == 2
\* calls of StageBodies.Revert
MaxBodiesReverts == 1
\* failed transport calls in one Exec
MaxWorkerErrs == 1
\* config.MinStreams ranges over 0 .. MaxMinStreams
MaxMinStreams == 1
\* calls of Exec with invalidBlockRevert = true
MaxRedownloads == 2

Reqs == 1 .. MaxReqs
StreamIDs == 1 .. NumStreams
ReqIDs == 0 .. (NumIDs - 1)

\* the nil request pointer / nil stream pointer / absent map entry
Nil == 0

reqPriorityLow == 0
reqPriorityHigh == 1

VARIABLES
    \* ---- request manager ----
    streams,      \* streams[id] = [live, inc, req]: the streams map; live = key present,
                  \* inc = which stream object of that id, req = its st.req pointer
    available,    \* set of stream ids: the available map
    pendings,     \* pendings[k] = request stored under id k, or Nil
    waitings,     \* [high, low]: the two waiting queues
    reqs,         \* the request objects (see NewReq)
    nreq,         \* number of request objects created so far
    newRequestC,  \* buffered channel of requests sent by doRequestAsync
    throttleC,    \* TRUE iff the 1-slot throttle channel holds a pulse
    loop,         \* "new" (not started), "running", "stopped" (close() has run)
    \* ---- staged sync engine (StagedStreamSync) ----
    disabled,         \* disabled[i] = stages[i].Disabled
    revertOrder,      \* the stages in revert order
    pruningOrder,     \* the stages in cleanup order
    currentStage,
    revertPoint,      \* NoPoint for nil
    prevRevertPoint,  \* NoPoint for nil
    invalidBlock,     \* EmptyHash for common.Hash{}
    progress,         \* progress[i]: the persisted progress of stage i
    timings,          \* sequence of [kind, stage]
    run,              \* the activation of Run: its position, locals and result
    calls,            \* history: the handler calls of the current cycle
    cycles,           \* number of Run calls so far
    \* ---- Bodies stage (StageBodies) ----
    exec,             \* the activation of Exec: its position, locals and result
    bctx,             \* TRUE iff the context of Exec is cancelled (ctx.Done() closed)
    gbm,              \* the download manager: [todo, retries, processing, done]
    batchChan,        \* [q, closed]: the worker channel of runDownloadLoop
    worker,           \* worker[w]: the batch worker w is downloading, {} if none
    blockDB,          \* blockDB[w]: block numbers saved in worker w's block database
    bprogress,        \* the persisted progress of the Bodies stage
    rev,              \* the last call of StageBodies.Revert: [n, head, before, result]
    \* ---- stream-count preflight and bad-block re-download ----
    minStreams,       \* config.MinStreams
    nstreams,         \* protocol.NumStreams()
    preflight,        \* result of the last checkHaveEnoughStreams: "none", "nil", "err"
    redl,             \* the activation of Exec with invalidBlockRevert = true
    txBlocks          \* block numbers put in the Blocks bucket through Exec's tx

rmVars == <<streams, available, pendings, waitings, reqs, nreq, newRequestC, throttleC, loop>>
engVars == <<disabled, revertOrder, pruningOrder, currentStage, revertPoint, prevRevertPoint,
             invalidBlock, progress, timings, run, calls, cycles>>
bodVars == <<exec, bctx, gbm, batchChan, worker, blockDB, bprogress, rev>>
rdVars == <<minStreams, nstreams, preflight, redl, txBlocks>>
vars == <<rmVars, engVars, bodVars, rdVars>>

(***************************************************************************)
(* Request manager: data                                                   *)
(***************************************************************************)
\* A request object that doRequestAsync has not created yet / has created.
\*   id        request id of the wrapped message (0 until SetReqID)
\*   ownerId, ownerInc   req.owner: the stream object (id, incarnation), Nil if none
\*   done      atmDone
\*   resp      what was sent on respC: "" (nothing yet) or the kind of response
\*   respSt    stID of that response
\*   wl        stream ids the request allows (no whitelist = all ids)
\*   ctx       the context watcher goroutine: "none", "wait" (in its select),
\*             "queued" (cancel sent on cancelReqC), "end" (cancel handled)
\*   afterClose  the request was issued after close() had run
NoReq ==
    [id |-> 0, ownerId |-> Nil, ownerInc |-> 0, done |-> FALSE, resp |-> "", respSt |-> 0,
     wl |-> {}, ctx |-> "none", afterClose |-> FALSE]

NewReq(w, closed) ==
    [NoReq EXCEPT !.wl = w, !.ctx = "wait", !.afterClose = closed]

NoStream == [live |-> FALSE, inc |-> 0, req |-> Nil]

\* The manager state the event loop owns, as one value the handlers transform.
Mgr == [streams |-> streams, available |-> available, pendings |-> pendings,
        waitings |-> waitings, reqs |-> reqs]

RMInit ==
    /\ streams = [id \in StreamIDs |-> NoStream]
    /\ available = {}
    /\ pendings = [k \in ReqIDs |-> Nil]
    /\ waitings = [high |-> <<>>, low |-> <<>>]
    /\ reqs = [r \in Reqs |-> NoReq]
    /\ nreq = 0
    /\ newRequestC = <<>>
    /\ throttleC = FALSE
    /\ loop = "new"

(***************************************************************************)
(* Request manager: helpers of the request and stream types                *)
(***************************************************************************)
\* A doneWithResponse without the compare-and-swap: it sends every time.
doneWithResponseAlways(m, r, kind, st) ==
    [m EXCEPT !.reqs[r].done = TRUE, !.reqs[r].resp = kind, !.reqs[r].respSt = st]

\* request.doneWithResponse: compare-and-swap atmDone, then one send on respC.
doneWithResponse(m, r, kind, st) ==
    IF m.reqs[r].done THEN m
    ELSE [m EXCEPT !.reqs[r].done = TRUE, !.reqs[r].resp = kind, !.reqs[r].respSt = st]

\* TRUE iff the stream object (id, inc) is the one the streams map holds under id.
IsLiveObj(m, id, inc) == id # Nil /\ m.streams[id].live /\ m.streams[id].inc = inc

\* stream.clearPendingRequest on the stream object (id, inc).  An object that
\* was removed from the map has had its pointer cleared by removeStream and is
\* never assigned again, so clearing it changes nothing.
clearPendingRequest(m, id, inc) ==
    IF IsLiveObj(m, id, inc) THEN [m EXCEPT !.streams[id].req = Nil] ELSE m

\* request.isStreamAllowed
isStreamAllowed(m, r, id) == id \in m.reqs[r].wl

\* Request.IsSupportedByProto: every stream of the model speaks the protocol.
IsSupportedByProto(m, r, id) == TRUE

SeqRemove(s, x) == SelectSeq(s, LAMBDA y : y # x)

\* requestQueues.Push (the requests of the model carry no priority option of
\* their own, so the queue is chosen by the priority argument).
Push(m, r, priority) ==
    IF priority = reqPriorityHigh
    THEN IF Len(m.waitings.high) >= MaxWaiting
         THEN [ok |-> FALSE, m |-> m]
         ELSE [ok |-> TRUE, m |-> [m EXCEPT !.waitings.high = Append(@, r)]]
    ELSE IF Len(m.waitings.low) >= MaxWaiting
         THEN [ok |-> FALSE, m |-> m]
         ELSE [ok |-> TRUE, m |-> [m EXCEPT !.waitings.low = Append(@, r)]]

\* requestQueues.Pop: the head of the high queue, else the head of the low queue.
Pop(m) ==
    IF m.waitings.high # <<>>
    THEN [r |-> Head(m.waitings.high), m |-> [m EXCEPT !.waitings.high = Tail(@)]]
    ELSE IF m.waitings.low # <<>>
    THEN [r |-> Head(m.waitings.low), m |-> [m EXCEPT !.waitings.low = Tail(@)]]
    ELSE [r |-> Nil, m |-> m]

\* requestQueues.Remove
Remove(m, r) ==
    [m EXCEPT !.waitings.high = SeqRemove(@, r), !.waitings.low = SeqRemove(@, r)]

(***************************************************************************)
(* Request manager: functions run by the event loop                        *)
(***************************************************************************)
\* addRequestToWaitings
addRequestToWaitings(m, r, priority) == Push(m, r, priority)

\* popRequestFromWaitings
popRequestFromWaitings(m) == Pop(m)

\* A genReqID that returns the generated value without the pendings test.
genReqIDUnchecked(m) == ReqIDs

\* The ids genReqID can return: any generated value that is not a key of pendings.
genReqID(m) == {k \in ReqIDs : m.pendings[k] = Nil}

\* addPendingRequest with the id k that genReqID returned.
addPendingRequest(m, r, id, k) ==
    [m EXCEPT !.reqs[r].id = k,
              !.reqs[r].ownerId = id,
              !.reqs[r].ownerInc = m.streams[id].inc,
              !.streams[id].req = r,
              !.available = @ \ {id},
              !.pendings[k] = r]

\* removePendingRequest: looks the request up by its id, deletes that key, then
\* clears the pointer of the request's owner and marks the owner's id available.
removePendingRequest(m, r) ==
    LET k == m.reqs[r].id IN
    IF m.pendings[k] = Nil THEN m
    ELSE LET m1 == [m EXCEPT !.pendings[k] = Nil] IN
         IF m.reqs[r].ownerId # Nil
         THEN LET m2 == clearPendingRequest(m1, m.reqs[r].ownerId, m.reqs[r].ownerInc)
              IN [m2 EXCEPT !.available = @ \cup {m.reqs[r].ownerId}]
         ELSE m1

\* pickAvailableStream: the streams the iteration over available.Keys() can
\* return (the map's iteration order is not fixed); {} stands for the error.
pickAvailableStream(m, r) ==
    {id \in m.available :
        /\ isStreamAllowed(m, r, id)
        /\ m.streams[id].live
        /\ m.streams[id].req = Nil
        /\ IsSupportedByProto(m, r, id)}

\* The first loop of getNextRequest: pop until a request that is not done.
RECURSIVE PopNotDone(_)
PopNotDone(m) ==
    LET p == popRequestFromWaitings(m) IN
    IF p.r = Nil THEN p
    ELSE IF ~p.m.reqs[p.r].done THEN p
    ELSE PopNotDone(p.m)

\* getNextRequest: the set of (request, stream, manager state) it can return.
\* r = Nil stands for (nil, nil).
getNextRequest(m) ==
    LET p == PopNotDone(m) IN
    IF p.r = Nil THEN {[r |-> Nil, st |-> Nil, m |-> p.m]}
    ELSE LET sts == pickAvailableStream(p.m, p.r) IN
         IF sts = {}
         THEN {[r |-> Nil, st |-> Nil, m |-> addRequestToWaitings(p.m, p.r, reqPriorityHigh).m]}
         ELSE {[r |-> p.r, st |-> id, m |-> p.m] : id \in sts}

\* The body of `case <-throttleC`: up to n assignments.  Each starts a goroutine
\* that writes the request to the stream (see WriteFail).
RECURSIVE throttleLoop(_, _)
throttleLoop(m, n) ==
    IF n = 0 THEN {m}
    ELSE UNION {
           IF g.r = Nil THEN {g.m}
           ELSE UNION { throttleLoop(addPendingRequest(g.m, g.r, g.st, k), n - 1)
                        : k \in genReqID(g.m) }
           : g \in getNextRequest(m) }

\* handleNewRequest: [added, m]
handleNewRequest(m, r) ==
    LET p == addRequestToWaitings(m, r, reqPriorityLow) IN
    IF ~p.ok
    THEN [added |-> FALSE, m |-> doneWithResponse(m, r, "queuefull", Nil)]
    ELSE [added |-> TRUE, m |-> p.m]

\* A validateDelivery without the test of the stream's current request.
validateDeliveryNoStreamCheck(m, stID, k) ==
    /\ m.streams[stID].live
    /\ m.pendings[k] # Nil
    /\ m.reqs[m.pendings[k]].ownerId # Nil
    /\ m.reqs[m.pendings[k]].ownerId = stID

\* validateDelivery: TRUE iff it returns nil for a response with request id k
\* delivered from stream stID.
validateDelivery(m, stID, k) ==
    /\ m.streams[stID].live
    /\ m.pendings[k] # Nil
    /\ m.reqs[m.pendings[k]].ownerId # Nil
    /\ m.reqs[m.pendings[k]].ownerId = stID
    /\ m.streams[stID].req # Nil
    /\ m.reqs[m.streams[stID].req].id = k

\* handleDeliverData
handleDeliverData(m, stID, k) ==
    IF ~validateDelivery(m, stID, k) THEN m
    ELSE LET r == m.pendings[k] IN
         removePendingRequest(doneWithResponse(m, r, "ok", stID), r)

\* handleCancelRequest
handleCancelRequest(m, r) ==
    LET m1 == removePendingRequest(Remove(m, r), r)
    IN doneWithResponse(m1, r, "cancel", m.reqs[r].ownerId)

\* addNewStream: a new stream object under the id.
addNewStream(m, id) ==
    [m EXCEPT !.streams[id] = [live |-> TRUE, inc |-> m.streams[id].inc + 1, req |-> Nil],
              !.available = @ \cup {id}]

\* A removeStream that forgets the available map.
removeStreamKeepsAvailable(m, id) ==
    LET cleared == m.streams[id].req
        m1 == [m EXCEPT !.streams[id].live = FALSE,
                        !.streams[id].req = Nil]
    IN IF cleared # Nil THEN doneWithResponse(m1, cleared, "removed", id) ELSE m1

\* removeStream
removeStream(m, id) ==
    LET cleared == m.streams[id].req
        m1 == [m EXCEPT !.available = @ \ {id},
                        !.streams[id].live = FALSE,
                        !.streams[id].req = Nil]
    IN IF cleared # Nil THEN doneWithResponse(m1, cleared, "removed", id) ELSE m1

\* checkStreamUpdates against the stream manager's snapshot `targets`.
checkStreamUpdates(m, targets) ==
    [added |-> {id \in targets : ~m.streams[id].live},
     removed |-> {id \in StreamIDs : m.streams[id].live /\ id \notin targets}]

RECURSIVE ApplyAll(_, _, _)
ApplyAll(Op(_, _), m, S) ==
    IF S = {} THEN m
    ELSE LET x == CHOOSE y \in S : \A z \in S : y <= z
         IN ApplyAll(Op, Op(m, x), S \ {x})

\* refreshStreams
refreshStreams(m, targets) ==
    LET u == checkStreamUpdates(m, targets)
    IN ApplyAll(removeStream, ApplyAll(addNewStream, m, u.added), u.removed)

\* close: every request in pendings is signalled ErrClosed, then the maps and
\* the queues are replaced by empty ones.
RECURSIVE CloseAll(_, _)
CloseAll(m, K) ==
    IF K = {} THEN m
    ELSE LET k == CHOOSE x \in K : \A y \in K : x <= y
         IN CloseAll(IF m.pendings[k] = Nil THEN m
                     ELSE doneWithResponse(m, m.pendings[k], "closed", Nil), K \ {k})

\* A close that drops the pending requests without signalling them.
closeWithoutSignal(m) ==
    [m EXCEPT
        !.streams = [id \in StreamIDs |-> [m.streams[id] EXCEPT !.live = FALSE, !.req = Nil]],
        !.available = {},
        !.pendings = [k \in ReqIDs |-> Nil],
        !.waitings = [high |-> <<>>, low |-> <<>>]]

close(m) ==
    [CloseAll(m, ReqIDs) EXCEPT
        !.streams = [id \in StreamIDs |-> [m.streams[id] EXCEPT !.live = FALSE, !.req = Nil]],
        !.available = {},
        !.pendings = [k \in ReqIDs |-> Nil],
        !.waitings = [high |-> <<>>, low |-> <<>>]]

(***************************************************************************)
(* Staged sync engine: data                                                *)
(***************************************************************************)
\* A stage is named by its index in the forward list s.stages, so that
\* stages[i].ID = i and SetCurrentStage(id) finds index id.
Stages == 0 .. (NumStages - 1)
BlockNums == 0 .. MaxBN
\* revertPoint == nil
NoPoint == -1
\* common.Hash{}
EmptyHash == 0
Hashes == {EmptyHash, 1}

\* The orders New builds from DefaultRevertOrder / DefaultCleanUpOrder, each a
\* permutation of the stage list.  Three shapes are tried: the forward order,
\* its reverse, and the forward order with the last stage moved to the front
\* (for stages A,B,C: [A,B,C], [C,B,A], [C,A,B]).
Orders ==
    { [a \in 1 .. NumStages |-> a - 1],
      [a \in 1 .. NumStages |-> NumStages - a],
      [a \in 1 .. NumStages |-> IF a = 1 THEN NumStages - 1 ELSE a - 2] }

IdleRun == [pc |-> "idle", firstCycle |-> FALSE, invalidBlockRevert |-> FALSE, j |-> 0,
            found |-> FALSE, result |-> "none", reverts |-> 0]

\* The engine as New returns it, over a database without progress.
EngineNew ==
    /\ disabled = [i \in Stages |-> FALSE]
    /\ currentStage = 0
    /\ revertPoint = NoPoint
    /\ prevRevertPoint = NoPoint
    /\ invalidBlock = EmptyHash
    /\ progress = [i \in Stages |-> 0]
    /\ timings = <<>>
    /\ run = IdleRun
    /\ calls = <<>>
    /\ cycles = 0

\* The revert pass and the cleanup pass do not read each other's order, so the
\* two orders are tried together, shape by shape.
EngineInit ==
    /\ EngineNew
    /\ revertOrder \in Orders
    /\ pruningOrder = revertOrder

\* The engine while only the request manager is looked at.
EngineRest ==
    /\ EngineNew
    /\ revertOrder = [a \in 1 .. NumStages |-> NumStages - a]
    /\ pruningOrder = [a \in 1 .. NumStages |-> NumStages - a]

(***************************************************************************)
(* Bodies stage: data                                                      *)
(***************************************************************************)
Workers == 1 .. NumWorkers
Heights == 0 .. MaxHeight

\* A batch is the set of block numbers GetNextBatch returned; the batches of
\* the model hold one block number, and {} is the empty batch.
\* The download manager newDownloadManager(bc, currProgress, targetHeight, ...)
\* builds: the block numbers in (currProgress, targetHeight] are to be fetched.
newDownloadManager(currProgress, targetHeight) ==
    [todo |-> (currProgress + 1) .. targetHeight, retries |-> {}, processing |-> {},
     done |-> {}]

\* Exec while it is not running.
\*   pc          position: "idle", "loop" (head of the producer loop), "send"
\*               (batch fetched, about to be sent), "drain" (deferred close and
\*               wg.Wait), "save" (saveProgress), "ret" (returned), "panic"
\*   target      targetHeight;  internalTx   useInternalTx
\*   batch       the batch the producer holds
\*   observed    the producer took `case <-ctx.Done()`
\*   panicking   the producer panicked: the deferred function runs, then the
\*               panic goes on
\*   sends       history: batches sent on the channel, and how many of them
\*   sendsAfter  after the producer observed the cancellation
\*   saveFailed  history: saveProgress returned an error
\*   requests    history: transport calls (GetRawBlocksByHashes) issued
\*   errs        history: transport calls that failed
\*   result      "none", "nil", "err" or "cancelled"
\*   n           number of Exec calls so far
IdleExec ==
    [pc |-> "idle", target |-> 0, internalTx |-> FALSE, batch |-> {}, observed |-> FALSE,
     panicking |-> FALSE, sends |-> 0, sendsAfter |-> 0, saveFailed |-> FALSE, requests |-> 0, errs |-> 0,
     result |-> "none", n |-> 0]

\* No call of Revert yet.
\*   n       number of calls so far;   head   s.state.CurrentBlockNumber()
\*   before  the persisted progress when Revert was called
\*   result  "none", "nil" or "err"
\*   done    the revert state was marked done, and the mark was committed
NoRevert == [n |-> 0, head |-> 0, before |-> 0, result |-> "none", done |-> FALSE]

BodiesInit ==
    /\ exec = IdleExec
    /\ bctx = FALSE
    /\ gbm = newDownloadManager(0, 0)
    /\ batchChan = [q |-> <<>>, closed |-> FALSE]
    /\ worker = [w \in Workers |-> {}]
    /\ blockDB = [w \in Workers |-> {}]
    /\ bprogress = 0
    /\ rev = NoRevert

(***************************************************************************)
(* Stream-count preflight and bad-block re-download: data                  *)
(***************************************************************************)
\* Exec with invalidBlockRevert = true while it is not running.
\*   pc          position: "idle", "loop" (head of badBlockDownloadLoop),
\*               "call" (in downloadRawBlocks), "ret", "panic"
\*   internalTx  useInternalTx
\*   bn          s.state.invalidBlock.Number, the one block of the batch
\*   bad         s.state.invalidBlock.StreamID, the recorded bad-block streams
\*   calls       history: the calls of downloadRawBlocks, counted modulo 2
\*   savedFrom   history: the streams whose response was put by saveBlocks
\*   failed      history: the streams reported with StreamFailed
\*   retried     history: the loop went on after a response of a bad stream
\*   noStreams   history: the loop found NumStreams() = 0
\*   result      "none", "nil", "err" or "panic";   n   number of calls so far
IdleRedl ==
    [pc |-> "idle", internalTx |-> FALSE, bn |-> 0, bad |-> {}, calls |-> 0,
     savedFrom |-> {}, failed |-> {}, retried |-> FALSE, noStreams |-> FALSE,
     result |-> "none", n |-> 0]

RedownloadInit ==
    /\ minStreams \in 0 .. MaxMinStreams
    /\ nstreams \in 0 .. NumStreams
    /\ preflight = "none"
    /\ redl = IdleRedl
    /\ txBlocks = {}

\* The preflight and the re-download while another component is looked at.
RedownloadRest ==
    /\ minStreams = 0
    /\ nstreams = 0
    /\ preflight = "none"
    /\ redl = IdleRedl
    /\ txBlocks = {}

(***************************************************************************)
(* Request manager: actions                                                *)
(***************************************************************************)
SetMgr(m) ==
    /\ streams' = m.streams
    /\ available' = m.available
    /\ pendings' = m.pendings
    /\ waitings' = m.waitings
    /\ reqs' = m.reqs

\* Start: go rm.loop()
Start ==
    /\ loop = "new"
    /\ loop' = "running"
    /\ UNCHANGED <<streams, available, pendings, waitings, reqs, nreq, newRequestC, throttleC, engVars, bodVars, rdVars>>

\* DoRequest / doRequestAsync: build the request, apply the options, send it on
\* newRequestC and start the goroutine that watches the caller's context.  The
\* caller then blocks on respC.  Nothing here looks at whether the loop runs.
DoRequest(w) ==
    /\ nreq < MaxReqs
    /\ nreq' = nreq + 1
    /\ reqs' = [reqs EXCEPT ![nreq + 1] = NewReq(w, loop = "stopped")]
    /\ newRequestC' = Append(newRequestC, nreq + 1)
    /\ UNCHANGED <<streams, available, pendings, waitings, throttleC, loop, engVars, bodVars, rdVars>>

\* case <-ticker.C: throttle()
Tick ==
    /\ loop = "running"
    /\ ~throttleC
    /\ throttleC' = TRUE
    /\ UNCHANGED <<streams, available, pendings, waitings, reqs, nreq, newRequestC, loop, engVars, bodVars, rdVars>>

\* case <-throttleC
Throttle ==
    /\ loop = "running"
    /\ throttleC
    /\ throttleC' = FALSE
    /\ \E m \in throttleLoop(Mgr, ThrottleBatch) : SetMgr(m)
    /\ UNCHANGED <<nreq, newRequestC, loop, engVars, bodVars, rdVars>>

\* case req := <-rm.newRequestC
NewRequest ==
    /\ loop = "running"
    /\ newRequestC # <<>>
    /\ LET h == handleNewRequest(Mgr, Head(newRequestC)) IN
         /\ SetMgr(h.m)
         /\ throttleC' = (throttleC \/ h.added)
    /\ newRequestC' = Tail(newRequestC)
    /\ UNCHANGED <<nreq, loop, engVars, bodVars, rdVars>>

\* case data := <-rm.deliveryC, for a response with request id k that the
\* transport delivered from stream stID (DeliverResponse never sets data.err).
Deliver(stID, k) ==
    /\ loop = "running"
    /\ SetMgr(handleDeliverData(Mgr, stID, k))
    /\ UNCHANGED <<nreq, newRequestC, throttleC, loop, engVars, bodVars, rdVars>>

\* The watcher goroutine of doRequestAsync takes `case <-ctx.Done()` and sends
\* the cancel on cancelReqC.  When doneC is closed as well, select may take
\* either case, so the cancel can also be sent for a request that is done; a
\* goroutine that takes `case <-req.doneC` ends without any effect.
CtxDone(r) ==
    /\ reqs[r].ctx = "wait"
    /\ reqs' = [reqs EXCEPT ![r].ctx = "queued"]
    /\ UNCHANGED <<streams, available, pendings, waitings, nreq, newRequestC, throttleC, loop, engVars, bodVars, rdVars>>

\* case data := <-rm.cancelReqC
Cancel(r) ==
    /\ loop = "running"
    /\ reqs[r].ctx = "queued"
    /\ LET m == handleCancelRequest(Mgr, r) IN
         SetMgr([m EXCEPT !.reqs[r].ctx = "end"])
    /\ UNCHANGED <<nreq, newRequestC, throttleC, loop, engVars, bodVars, rdVars>>

\* The goroutine started by the throttle case for a request that was assigned
\* to a stream: st.WriteBytes(b) fails.  (A successful write changes nothing; a
\* failure reported for a request that is done already is dropped by
\* doneWithResponse.)
WriteFail(r) ==
    /\ reqs[r].ownerId # Nil
    /\ ~reqs[r].done
    /\ reqs' = doneWithResponse(Mgr, r, "writeerr", reqs[r].ownerId).reqs
    /\ UNCHANGED <<streams, available, pendings, waitings, nreq, newRequestC, throttleC, loop, engVars, bodVars, rdVars>>

\* case <-rm.newStreamC / case <-rm.rmStreamC: refreshStreams against the
\* stream manager's current snapshot.
StreamEvent(targets) ==
    /\ loop = "running"
    /\ LET u == checkStreamUpdates(Mgr, targets) IN
         /\ u.added \cup u.removed # {}
         /\ \A id \in u.added : streams[id].inc < MaxInc
    /\ SetMgr(refreshStreams(Mgr, targets))
    /\ UNCHANGED <<nreq, newRequestC, throttleC, loop, engVars, bodVars, rdVars>>

\* Close, and the loop's `case <-rm.stopC`: rm.close() and return.
Close ==
    /\ loop = "running"
    /\ SetMgr(close(Mgr))
    /\ loop' = "stopped"
    /\ UNCHANGED <<nreq, newRequestC, throttleC, engVars, bodVars, rdVars>>

Init ==
    /\ RMInit
    /\ EngineRest
    /\ BodiesInit
    /\ RedownloadRest

Next ==
    \/ Start
    \/ \E w \in {StreamIDs, {1}} : DoRequest(w)
    \/ Tick
    \/ Throttle
    \/ NewRequest
    \/ \E stID \in StreamIDs, k \in ReqIDs : Deliver(stID, k)
    \/ \E r \in Reqs : CtxDone(r)
    \/ \E r \in Reqs : Cancel(r)
    \/ \E r \in Reqs : WriteFail(r)
    \/ \E targets \in SUBSET StreamIDs : StreamEvent(targets)
    \/ Close

Spec == Init /\ [][Next]_vars

(***************************************************************************)
(* Request manager: claims                                                 *)
(***************************************************************************)
Created == 1 .. nreq
InPendings(r) == \E k \in ReqIDs : pendings[k] = r
\* The request pointer of the stream object that owns r (a removed object's
\* pointer is nil).
OwnerReq(r) ==
    IF IsLiveObj(Mgr, reqs[r].ownerId, reqs[r].ownerInc)
    THEN streams[reqs[r].ownerId].req ELSE Nil

\* C1: in every reachable state a stream id is in `available` iff it is in
\* `streams` and that stream's request pointer is nil; hence
\* |available| + |streams with a request| = |streams|.
C1_AvailableIffIdle ==
    /\ \A id \in StreamIDs : id \in available <=> (streams[id].live /\ streams[id].req = Nil)
    /\ Cardinality(available)
         + Cardinality({id \in StreamIDs : streams[id].live /\ streams[id].req # Nil})
       = Cardinality({id \in StreamIDs : streams[id].live})

\* C2: in every reachable state a request is in `pendings` iff its owner is
\* non-nil and the owner's request pointer is this request; for every id in
\* `pendings` the owning stream's current request has that id.
C2_PendingIffOwned ==
    /\ \A r \in Created : InPendings(r) <=> (reqs[r].ownerId # Nil /\ OwnerReq(r) = r)
    /\ \A k \in ReqIDs : pendings[k] # Nil =>
          /\ OwnerReq(pendings[k]) # Nil
          /\ reqs[OwnerReq(pendings[k])].id = k

\* C3: at most one request is in flight per stream: for every stream id at
\* most one request in `pendings` has an owner with that id.
C3_OnePendingPerStream ==
    \A id \in StreamIDs :
        Cardinality({r \in Created : InPendings(r) /\ reqs[r].ownerId = id}) <= 1

\* Request q is handed the response with id k delivered from stream s in this step.
Accepted(q, s, k) ==
    /\ ~reqs[q].done
    /\ reqs[q].id = k
    /\ reqs'[q].resp = "ok"
    /\ reqs'[q].respSt = s

\* C4: once request r, assigned id k on stream s, has been cancelled (its
\* caller got the cancellation error), a later response with id k delivered
\* from s is dropped: no step hands it to any caller.
C4_StaleDeliveryDropped ==
    [][ \A r \in Reqs :
            (reqs[r].resp = "cancel" /\ reqs[r].ownerId # Nil)
            => \A q \in Reqs : ~Accepted(q, reqs[r].ownerId, reqs[r].id) ]_vars

\* C5: a do_request call made after close() has completed fails with Closed:
\* the request is answered with the Closed error instead of being left on
\* newRequestC with its caller blocked on respC.
C5_ClosedAfterClose ==
    \A r \in Created : reqs[r].afterClose => reqs[r].resp = "closed"

\* The step is the event loop processing close.
CloseStep == loop = "running" /\ loop' = "stopped"

\* C16: when the event loop processes close, every request that is in
\* pendings and not yet answered is signalled ErrClosed, and afterwards
\* streams, available, pendings and both waiting queues are empty.
C16_CloseSignalsPendings ==
    [][ CloseStep
        => /\ \A r \in Created :
                 (InPendings(r) /\ ~reqs[r].done) => reqs'[r].resp = "closed"
           /\ \A id \in StreamIDs : ~streams'[id].live
           /\ available' = {}
           /\ \A k \in ReqIDs : pendings'[k] = Nil
           /\ waitings'.high = <<>> /\ waitings'.low = <<>> ]_vars

\* close has run while a request was in flight and another was not answered yet.
C16_Witness ==
    /\ loop = "stopped"
    /\ \E r \in Created : reqs[r].resp = "closed"
    /\ \E r \in Created : reqs[r].resp = "" /\ reqs[r].ownerId = Nil /\ ~reqs[r].afterClose

\* The step is the event loop handling the cancel of request r.
CancelStep(r) == loop = "running" /\ reqs[r].ctx = "queued" /\ reqs'[r].ctx = "end"
\* Request r is in flight on a stream of the streams map: the stream is r's
\* owner and its request pointer is r.
InFlight(r) == reqs[r].ownerId # Nil /\ OwnerReq(r) = r

\* C17: when the cancel handler processes the cancel of a request r that has
\* not been answered, then afterwards r is in neither waiting queue nor in
\* pendings, the stream r was in flight on has no request pointer and is in
\* available, and r's caller has received the cancellation error.
C17_CancelCleansUp ==
    [][ \A r \in Created :
          (CancelStep(r) /\ ~reqs[r].done)
          => /\ \A a \in 1 .. Len(waitings'.high) : waitings'.high[a] # r
             /\ \A a \in 1 .. Len(waitings'.low) : waitings'.low[a] # r
             /\ \A k \in ReqIDs : pendings'[k] # r
             /\ InFlight(r) => /\ streams'[reqs[r].ownerId].req = Nil
                               /\ reqs[r].ownerId \in available'
             /\ reqs'[r].resp = "cancel" ]_vars

\* The step removes the stream id from the running manager (removeStream).
RemovedIn(id) == streams[id].live /\ ~streams'[id].live /\ loop' = "running"

\* C18, as stated: a stream that is removed is deleted from streams and from
\* available, and the caller of the request it had in flight is signalled the
\* stream-removed error with that stream's id; the streams that stay keep
\* their request pointer and their availability.
C18_RemoveStreamSignalsInFlight ==
    [][ \A id \in StreamIDs :
          RemovedIn(id)
          => /\ id \notin available'
             /\ LET r == streams[id].req IN
                  r # Nil => (reqs'[r].resp = "removed" /\ reqs'[r].respSt = id)
             /\ \A o \in StreamIDs :
                  (streams[o].live /\ streams'[o].live)
                  => /\ streams'[o] = streams[o]
                     /\ (o \in available') = (o \in available) ]_vars

\* C18, amended: a stream that is removed is deleted from streams and from
\* available, and the caller of the request it had in flight, if that caller
\* has not been answered yet, is signalled the stream-removed error with that
\* stream's id; a caller that was answered before keeps the answer it got;
\* the streams that stay keep their request pointer and their availability.
C18_RemoveStream ==
    [][ \A id \in StreamIDs :
          RemovedIn(id)
          => /\ id \notin available'
             /\ LET r == streams[id].req IN
                  /\ (r # Nil /\ ~reqs[r].done)
                     => (reqs'[r].resp = "removed" /\ reqs'[r].respSt = id)
                  /\ (r # Nil /\ reqs[r].done) => reqs'[r] = reqs[r]
             /\ \A o \in StreamIDs :
                  (streams[o].live /\ streams'[o].live)
                  => /\ streams'[o] = streams[o]
                     /\ (o \in available') = (o \in available) ]_vars

\* A stream with an in-flight request has been removed while another stream
\* was serving a request.
C18_Witness ==
    /\ loop = "running"
    /\ \E r \in Created : reqs[r].resp = "removed" /\ ~streams[reqs[r].respSt].live
    /\ \E o \in StreamIDs : streams[o].live /\ streams[o].req # Nil

\* A response with request id k from stream s matches the manager state: s is
\* in streams, pendings[k] exists and is owned by s, and s's current request
\* has id k.
Matches(s, k) ==
    /\ streams[s].live
    /\ pendings[k] # Nil
    /\ reqs[pendings[k]].ownerId = s
    /\ streams[s].req # Nil
    /\ reqs[streams[s].req].id = k

\* C19: in every reachable state and for every delivery (s, k): a caller is
\* handed the response only if the delivery matches, and then it is the
\* caller of pendings[k], owned by s; a matching delivery removes the request
\* from pendings, clears s's request pointer and makes s available; any other
\* delivery leaves the manager state unchanged.
C19_DeliveryValidated ==
    \A s \in StreamIDs, k \in ReqIDs :
        LET m2 == handleDeliverData(Mgr, s, k) IN
        /\ \A q \in Reqs :
              m2.reqs[q] # reqs[q]
              => /\ Matches(s, k) /\ q = pendings[k] /\ reqs[q].ownerId = s
                 /\ m2.reqs[q].resp = "ok" /\ m2.reqs[q].respSt = s
        /\ Matches(s, k)
           => /\ m2.pendings[k] = Nil
              /\ m2.streams[s].req = Nil
              /\ s \in m2.available
              /\ ~reqs[pendings[k]].done => m2.reqs[pendings[k]].resp = "ok"
        /\ ~Matches(s, k) => m2 = Mgr

\* A response has been handed to the caller of a request while another
\* request is pending on another stream, for which the same delivery would
\* not match.
C19_Witness ==
    /\ \E q \in Created : reqs[q].resp = "ok" /\ ~InPendings(q)
                          /\ reqs[q].respSt \in available
    /\ \E s \in StreamIDs, k \in ReqIDs :
          pendings[k] # Nil /\ streams[s].live /\ ~Matches(s, k)

\* C20: the id genReqID returns is not a key of pendings, and no step
\* replaces the request stored under a key of pendings by another request.
C20_FreshRequestID ==
    /\ [](\A k \in genReqID(Mgr) : pendings[k] = Nil)
    /\ [][ \A k \in ReqIDs :
             (pendings[k] # Nil /\ pendings'[k] # Nil) => pendings'[k] = pendings[k] ]_vars

\* A request was added to pendings while another id was taken: the two
\* requests are stored under different ids.
C20_Witness ==
    \E k1, k2 \in ReqIDs :
        /\ k1 # k2
        /\ pendings[k1] # Nil /\ pendings[k2] # Nil
        /\ pendings[k1] # pendings[k2]

\* C21: the caller of a request receives at most one response: a response is
\* sent exactly when the request becomes done, and once one has been sent no
\* later delivery, cancel, stream removal, write failure or close sends
\* another.
C21_OneShotResponse ==
    /\ [](\A r \in Reqs : reqs[r].done = (reqs[r].resp # ""))
    /\ [][ \A r \in Reqs :
             reqs[r].resp # ""
             => (reqs'[r].resp = reqs[r].resp /\ reqs'[r].respSt = reqs[r].respSt) ]_vars

\* A request was answered by a delivery and its cancel was handled afterwards.
C21_Witness ==
    \E r \in Created : reqs[r].resp = "ok" /\ reqs[r].ctx = "end"

\* The request manager under fair scheduling: the event loop takes a case of
\* its select that stays ready (a queued request, a throttle pulse, a queued
\* cancel), and the ticker keeps firing.
FairSpec ==
    /\ Spec
    /\ WF_vars(Tick)
    /\ WF_vars(Throttle)
    /\ WF_vars(NewRequest)
    /\ \A r \in Reqs : WF_vars(Cancel(r))

\* C22: a DoRequest call whose context has been cancelled eventually returns
\* to its caller, whatever the state of its request.
C22_CancelledCallReturns ==
    \A r \in Reqs : (reqs[r].ctx = "queued") ~> reqs[r].done

\* Request r is in one of the waiting queues.
InWaitings(r) ==
    \/ \E a \in 1 .. Len(waitings.high) : waitings.high[a] = r
    \/ \E a \in 1 .. Len(waitings.low) : waitings.low[a] = r

\* C32: while the loop runs, a waiting request that is not done is eventually
\* assigned to a stream (or answered), unless at some moment no compatible
\* stream is available for it.
C32_NoStarvation ==
    \A r \in Reqs :
        (InWaitings(r) /\ ~reqs[r].done)
        ~> \/ reqs[r].ownerId # Nil
           \/ reqs[r].done
           \/ pickAvailableStream(Mgr, r) = {}
           \/ loop = "stopped"

\* C33: while the loop runs, a stream of the streams map whose current
\* request has been answered eventually has its request pointer cleared and
\* is available again, or is removed.
C33_StreamFreedAfterAnswer ==
    \A id \in StreamIDs :
        (/\ streams[id].live
         /\ streams[id].req # Nil
         /\ reqs[streams[id].req].done)
        ~> \/ ~streams[id].live
           \/ (streams[id].req = Nil /\ id \in available)
           \/ loop = "stopped"

\* C34: the cancel of request r leaves every other request's entry of
\* pendings in place, leaves the request pointer of every stream that serves
\* another request alone, and puts in available only a stream of the streams
\* map that was free or serving r.
C34_CancelFrame ==
    [][\A r \in Reqs :
         CancelStep(r)
         => (/\ \A k \in ReqIDs :
                   pendings[k] \notin {Nil, r} => pendings'[k] = pendings[k]
             /\ \A id \in StreamIDs :
                   streams[id].req \notin {Nil, r} => streams'[id].req = streams[id].req
             /\ \A id \in available' \ available :
                   streams[id].live /\ streams[id].req \in {Nil, r})]_vars

(***************************************************************************)
(* Staged sync engine: operations                                          *)
(***************************************************************************)
\* An IsDone that forgets the pending revert point.
IsDoneWithoutRevertPoint == currentStage >= NumStages

\* IsDone
IsDone == currentStage >= NumStages /\ revertPoint = NoPoint

\* One entry of the handler-call history: the handler called (kind "forward",
\* "revert" or "cleanup", and the stage), the arguments it got (firstCycle,
\* invalidBlockRevert, and bn, the BlockNumber of its StageState) and whether
\* it returned nil.  An entry of kind "pass" marks the end of a revert pass;
\* its ibr tells whether the pass was triggered with a non-empty hash.
Call(kind, stage, fc, ibr, bn, ok) ==
    [kind |-> kind, stage |-> stage, firstCycle |-> fc, ibr |-> ibr, bn |-> bn, ok |-> ok]

\* A revertStage without the progress test: the handler is called always.
revertNeverSkipped(bn, rp) == FALSE

\* A cleanUp without the search for fromStage: every entry is cleaned up.
cleanUpFoundAlways(found, id, fromStage) == TRUE

\* revertStage: `if stageState.BlockNumber <= revert.RevertPoint { return nil }`
revertSkipped(bn, rp) == bn <= rp

\* cleanUp: `if s.pruningOrder[i].ID == s.stages[fromStage].ID { found = true }`
cleanUpFound(found, id, fromStage) == found \/ id = fromStage

\* Timing{isRevert, isCleanUp, stage}
Timing(kind, stage) == [kind |-> kind, stage |-> stage]

\* DisableStages(id) / EnableStages(id), while the pipeline is set up before
\* the first cycle.
SetDisabled(i, d) ==
    /\ run.pc = "idle"
    /\ cycles = 0
    /\ disabled[i] # d
    /\ disabled' = [disabled EXCEPT ![i] = d]
    /\ UNCHANGED <<revertOrder, pruningOrder, currentStage, revertPoint, prevRevertPoint,
                   invalidBlock, progress, timings, run, calls, cycles, rmVars, bodVars, rdVars>>

\* Run(db, tx, firstCycle): entry.
Run(fc) ==
    /\ run.pc = "idle"
    /\ cycles < MaxCycles
    /\ cycles' = cycles + 1
    /\ prevRevertPoint' = NoPoint
    /\ timings' = <<>>
    /\ calls' = <<>>
    /\ run' = [IdleRun EXCEPT !.pc = "loop", !.firstCycle = fc]
    /\ UNCHANGED <<disabled, revertOrder, pruningOrder, currentStage, revertPoint,
                   invalidBlock, progress, rmVars, bodVars, rdVars>>

\* `for !s.IsDone() { var invalidBlockRevert bool; if s.revertPoint != nil ...`
LoopTurn ==
    /\ run.pc = "loop"
    /\ run' = IF IsDone THEN [run EXCEPT !.pc = "cleanup", !.j = 0, !.found = FALSE]
              ELSE IF revertPoint # NoPoint
              THEN [run EXCEPT !.pc = "revert", !.j = 0, !.invalidBlockRevert = FALSE]
              ELSE [run EXCEPT !.pc = "forward", !.invalidBlockRevert = FALSE]
    /\ UNCHANGED <<disabled, revertOrder, pruningOrder, currentStage, revertPoint,
                   prevRevertPoint, invalidBlock, progress, timings, calls, cycles, rmVars, bodVars, rdVars>>

\* One turn of the revert loop that calls no handler: the stage is disabled
\* (Run), or its progress is not above the revert point (revertStage).
RevertSkip ==
    /\ run.pc = "revert"
    /\ run.j < NumStages
    /\ LET st == revertOrder[run.j + 1] IN
         disabled[st] \/ revertSkipped(progress[st], revertPoint)
    /\ run' = [run EXCEPT !.j = @ + 1]
    /\ UNCHANGED <<disabled, revertOrder, pruningOrder, currentStage, revertPoint,
                   prevRevertPoint, invalidBlock, progress, timings, calls, cycles, rmVars, bodVars, rdVars>>

\* A revert loop that goes on to the next stage when a Revert handler fails.
RevertCallIgnoresError(ok, np) ==
    /\ run.pc = "revert"
    /\ run.j < NumStages
    /\ LET st == revertOrder[run.j + 1] IN
         /\ ~disabled[st]
         /\ ~revertSkipped(progress[st], revertPoint)
         /\ currentStage' = st
         /\ calls' = Append(calls, Call("revert", st, run.firstCycle, FALSE, progress[st], ok))
         /\ progress' = [progress EXCEPT ![st] = np]
         /\ timings' = IF ok THEN Append(timings, Timing("revert", st)) ELSE timings
         /\ run' = [run EXCEPT !.j = @ + 1]
    /\ UNCHANGED <<disabled, revertOrder, pruningOrder, revertPoint, prevRevertPoint,
                   invalidBlock, cycles, rmVars, bodVars, rdVars>>

\* revertStage calling the stage's Revert handler, which returns nil (ok) or an
\* error.  The handler leaves np as the stage's progress: one that succeeds has
\* saved the progress it reverted to (the Bodies stage saves the current head
\* of the chain); one that fails may have saved it through Run's transaction
\* before it failed (the Bodies stage when u.Done fails after s.Update), and
\* nothing rolls that back; np is the old progress when it wrote nothing.
RevertCall(ok, np) ==
    /\ run.pc = "revert"
    /\ run.j < NumStages
    /\ LET st == revertOrder[run.j + 1] IN
         /\ ~disabled[st]
         /\ ~revertSkipped(progress[st], revertPoint)
         /\ currentStage' = st
         /\ calls' = Append(calls, Call("revert", st, run.firstCycle, FALSE, progress[st], ok))
         /\ progress' = [progress EXCEPT ![st] = np]
         /\ IF ok
            THEN /\ timings' = Append(timings, Timing("revert", st))
                 /\ run' = [run EXCEPT !.j = @ + 1]
            ELSE /\ UNCHANGED timings
                 /\ run' = [run EXCEPT !.pc = "idle", !.result = "err"]
    /\ UNCHANGED <<disabled, revertOrder, pruningOrder, revertPoint, prevRevertPoint,
                   invalidBlock, cycles, rmVars, bodVars, rdVars>>

\* An end of the revert block that leaves out `firstCycle = false`.
RevertPassEndKeepsFirstCycle ==
    /\ run.pc = "revert"
    /\ run.j = NumStages
    /\ prevRevertPoint' = revertPoint
    /\ revertPoint' = NoPoint
    /\ invalidBlock' = EmptyHash
    /\ currentStage' = 0
    /\ run' = [run EXCEPT !.pc = "forward",
                          !.invalidBlockRevert = (invalidBlock # EmptyHash)]
    /\ calls' = Append(calls, Call("pass", 0, run.firstCycle, invalidBlock # EmptyHash, 0, TRUE))
    /\ UNCHANGED <<disabled, revertOrder, pruningOrder, progress, timings, cycles, rmVars, bodVars, rdVars>>

\* The end of the revert block of Run; the same loop turn goes on to the stage
\* at s.currentStage.
RevertPassEnd ==
    /\ run.pc = "revert"
    /\ run.j = NumStages
    /\ prevRevertPoint' = revertPoint
    /\ revertPoint' = NoPoint
    /\ invalidBlock' = EmptyHash
    /\ currentStage' = 0
    /\ run' = [run EXCEPT !.pc = "forward", !.firstCycle = FALSE,
                          !.invalidBlockRevert = (invalidBlock # EmptyHash)]
    /\ calls' = Append(calls, Call("pass", 0, run.firstCycle, invalidBlock # EmptyHash, 0, TRUE))
    /\ UNCHANGED <<disabled, revertOrder, pruningOrder, progress, timings, cycles, rmVars, bodVars, rdVars>>

\* `if stage.Disabled { s.NextStage(); continue }`
ForwardSkip ==
    /\ run.pc = "forward"
    /\ disabled[currentStage]
    /\ currentStage' = currentStage + 1
    /\ run' = [run EXCEPT !.pc = "loop"]
    /\ UNCHANGED <<disabled, revertOrder, pruningOrder, revertPoint, prevRevertPoint,
                   invalidBlock, progress, timings, calls, cycles, rmVars, bodVars, rdVars>>

\* Done(), called on the engine while no cycle runs (before one of the
\* MaxCycles calls of Run).  No stage handler calls it.
Done ==
    /\ run.pc = "idle"
    /\ cycles < MaxCycles
    /\ currentStage' = NumStages
    /\ revertPoint' = NoPoint
    /\ UNCHANGED <<disabled, revertOrder, pruningOrder, prevRevertPoint, invalidBlock,
                   progress, timings, run, calls, cycles, rmVars, bodVars, rdVars>>

\* runStage calling the stage's Exec handler.  The handler returns nil (ok) or
\* an error; while it runs it may call RevertTo(rp, h) (rv = TRUE); when it
\* succeeds it has saved progress np, not below the old one.  NextStage
\* follows a handler that returned nil.
ForwardCall(ok, rv, rp, h, np) ==
    /\ run.pc = "forward"
    /\ ~disabled[currentStage]
    /\ rv => run.reverts < MaxReverts
    /\ np >= progress[currentStage]
    /\ calls' = Append(calls, Call("forward", currentStage, run.firstCycle,
                                   run.invalidBlockRevert, progress[currentStage], ok))
    /\ IF rv THEN revertPoint' = rp /\ invalidBlock' = h
             ELSE UNCHANGED <<revertPoint, invalidBlock>>
    /\ IF ok
       THEN /\ progress' = [progress EXCEPT ![currentStage] = np]
            /\ timings' = Append(timings, Timing("forward", currentStage))
            /\ currentStage' = currentStage + 1
            /\ run' = [run EXCEPT !.pc = "loop", !.reverts = IF rv THEN @ + 1 ELSE @]
       ELSE /\ UNCHANGED <<progress, timings, currentStage>>
            /\ run' = [run EXCEPT !.pc = "idle", !.result = "err",
                                  !.reverts = IF rv THEN @ + 1 ELSE @]
    /\ UNCHANGED <<disabled, revertOrder, pruningOrder, prevRevertPoint, cycles, rmVars, bodVars, rdVars>>

\* cleanUp(0, ...): one turn of its loop over pruningOrder.  `found` becomes
\* true at the entry that holds stages[0]; an entry is pruned when found and
\* enabled.  pruneStage calls the stage's CleanUp handler; an error panics.
CleanUpTurn(ok) ==
    /\ run.pc = "cleanup"
    /\ run.j < NumStages
    /\ LET st == pruningOrder[run.j + 1]
           fnd == cleanUpFound(run.found, st, 0)
       IN IF ~fnd \/ disabled[st]
          THEN /\ ok
               /\ run' = [run EXCEPT !.j = @ + 1, !.found = fnd]
               /\ UNCHANGED <<currentStage, timings, calls>>
          ELSE /\ currentStage' = st
               /\ calls' = Append(calls, Call("cleanup", st, run.firstCycle, FALSE,
                                              progress[st], ok))
               /\ IF ok
                  THEN /\ timings' = Append(timings, Timing("cleanup", st))
                       /\ run' = [run EXCEPT !.j = @ + 1, !.found = fnd]
                  ELSE /\ UNCHANGED timings
                       /\ run' = [run EXCEPT !.pc = "panic", !.result = "panic"]
    /\ UNCHANGED <<disabled, revertOrder, pruningOrder, revertPoint, prevRevertPoint,
                   invalidBlock, progress, cycles, rmVars, bodVars, rdVars>>

\* The end of Run: SetCurrentStage(stages[0].ID), printLogs, currentStage = 0,
\* return nil.
RunEnd ==
    /\ run.pc = "cleanup"
    /\ run.j = NumStages
    /\ currentStage' = 0
    /\ run' = [run EXCEPT !.pc = "idle", !.result = "ok"]
    /\ UNCHANGED <<disabled, revertOrder, pruningOrder, revertPoint, prevRevertPoint,
                   invalidBlock, progress, timings, calls, cycles, rmVars, bodVars, rdVars>>

(***************************************************************************)
(* Staged sync engine: claims                                              *)
(***************************************************************************)
Enabled(st) == ~disabled[st]
ForwardOrder == [a \in 1 .. NumStages |-> a - 1]
StageSeq(log) == [a \in 1 .. Len(log) |-> log[a].stage]
OfKind(log, kind) == SelectSeq(log, LAMBDA e : e.kind = kind)
\* Run has returned (nil or an error) to its caller.
Returned == run.pc = "idle" /\ run.result \in {"ok", "err"}

\* C6: whenever Run has returned, with nil or with an error, the engine has
\* currentStage = 0 and revertPoint = nil.
C6_FinalStateReset == Returned => (currentStage = 0 /\ revertPoint = NoPoint)

\* C7: after a revert pass that was triggered with a non-empty invalid-block
\* hash, the first forward call of the Bodies stage that follows gets
\* invalidBlockRevert = true, at whatever position b of the forward order
\* Bodies is.
C7_BodiesSeesInvalidRevert ==
    \A b \in Stages : \A p, q \in 1 .. Len(calls) :
        ( /\ p < q
          /\ calls[p].kind = "pass" /\ calls[p].ibr
          /\ calls[q].kind = "forward" /\ calls[q].stage = b
          /\ \A a \in (p + 1) .. (q - 1) :
                calls[a].kind # "pass" /\ ~(calls[a].kind = "forward" /\ calls[a].stage = b) )
        => calls[q].ibr

\* C8 as claimed: in a cycle whose forward pass completes, the cleanup timing
\* entries are the enabled stages, all of them, in the cleanup order.
C8_CleanupAllInOrder ==
    (run.pc = "idle" /\ run.result = "ok")
    => StageSeq(OfKind(timings, "cleanup")) = SelectSeq(pruningOrder, Enabled)

\* The position of the first forward stage in the cleanup order.
FirstStagePos == CHOOSE a \in 1 .. NumStages : pruningOrder[a] = 0

\* C8 as amended: in a cycle that Run completes, the cleanup timing entries are
\* the enabled stages at or after the position of the first forward stage in
\* the cleanup order, in that order; the stages listed before that position
\* are not cleaned up.
C8_CleanupFromFirstStage ==
    (run.pc = "idle" /\ run.result = "ok")
    => StageSeq(OfKind(timings, "cleanup"))
         = SelectSeq(SubSeq(pruningOrder, FirstStagePos, NumStages), Enabled)

\* Forward order A,B,C, cleanup order [C,A,B], all enabled: the cycle's cleanup
\* entries are A, B.
C8_Witness ==
    /\ run.pc = "idle" /\ run.result = "ok"
    /\ \A st \in Stages : Enabled(st)
    /\ pruningOrder = <<2, 0, 1>>
    /\ StageSeq(OfKind(timings, "cleanup")) = <<0, 1>>

\* The cleanup handler of stage st was invoked in the current cycle.
CleanedUp(st) ==
    \E c \in 1 .. Len(calls) : calls[c].kind = "cleanup" /\ calls[c].stage = st

\* C28: while the cleanup pass runs and after Run has returned nil, a stage
\* listed in the cleanup order before the first forward stage has not had its
\* cleanup handler invoked, nor has a disabled stage; an enabled stage at or
\* after that position has, as soon as the pass has gone over its position.
C28_CleanupStartsAtFirstStage ==
    (run.pc = "cleanup" \/ (run.pc = "idle" /\ run.result = "ok"))
    => \A a \in 1 .. NumStages :
          LET st == pruningOrder[a]
              passed == IF run.pc = "cleanup" THEN a <= run.j ELSE TRUE
          IN
          /\ a < FirstStagePos => ~CleanedUp(st)
          /\ disabled[st] => ~CleanedUp(st)
          /\ (a >= FirstStagePos /\ Enabled(st) /\ passed) => CleanedUp(st)

\* C28: a completed cycle in which an enabled stage listed before the first
\* forward stage was not cleaned up, a disabled stage after it was skipped,
\* and the first forward stage was cleaned up.
C28_Witness ==
    /\ run.pc = "idle" /\ run.result = "ok"
    /\ FirstStagePos > 1
    /\ \E a \in 1 .. (FirstStagePos - 1) :
          Enabled(pruningOrder[a]) /\ ~CleanedUp(pruningOrder[a])
    /\ \E a \in (FirstStagePos + 1) .. NumStages :
          disabled[pruningOrder[a]] /\ ~CleanedUp(pruningOrder[a])
    /\ CleanedUp(0)

\* A revert pass has just ended.
PassEnded == calls # <<>> /\ calls[Len(calls)].kind = "pass"
\* The revert calls of that pass: the run of revert entries before its mark.
PassCalls ==
    LET n == Len(calls)
        first == CHOOSE a \in 1 .. n :
                    /\ \A c \in a .. (n - 1) : calls[c].kind = "revert"
                    /\ \A a2 \in 1 .. (a - 1) : \E c \in a2 .. (n - 1) : calls[c].kind # "revert"
    IN SubSeq(calls, first, n - 1)
Called(log, st) == \E a \in 1 .. Len(log) : log[a].stage = st

\* C9 as claimed: a revert pass calls the revert handler of every enabled
\* stage, once, in the revert order, whatever the stages' progress.
C9_RevertAllEnabled ==
    PassEnded => StageSeq(PassCalls) = SelectSeq(revertOrder, Enabled)

\* C9 as amended: a revert pass that runs to its end has called the revert
\* handler of exactly the enabled stages whose persisted progress was above the
\* revert point, once each and in the revert order; an enabled stage whose
\* progress is not above the revert point is skipped; and no forward handler
\* is called between a revert call and the end of the pass.
C9_RevertAboveRevertPoint ==
    /\ \A a \in 1 .. (Len(calls) - 1) :
          calls[a].kind = "revert" => calls[a + 1].kind \in {"revert", "pass"}
    /\ PassEnded =>
          LET B == PassCalls IN
          /\ StageSeq(B) = SelectSeq(revertOrder, LAMBDA st : Called(B, st))
          /\ \A a \in 1 .. Len(B) :
                Enabled(B[a].stage) /\ B[a].bn > prevRevertPoint /\ B[a].ok
          /\ \A st \in Stages :
                (Enabled(st) /\ ~Called(B, st)) => progress[st] <= prevRevertPoint

\* A pass that called one stage's handler and skipped another enabled stage.
C9_Witness ==
    /\ PassEnded
    /\ PassCalls # <<>>
    /\ \E st \in Stages : Enabled(st) /\ ~Called(PassCalls, st)

\* C10: a cycle without revert and without handler error has called the
\* forward handlers of exactly the enabled stages, once each, in the forward
\* order, and its forward timing entries are in that order.
C10_ForwardAllEnabled ==
    (run.pc = "idle" /\ run.result = "ok" /\ prevRevertPoint = NoPoint)
    => /\ StageSeq(OfKind(calls, "forward")) = SelectSeq(ForwardOrder, Enabled)
       /\ StageSeq(OfKind(timings, "forward")) = SelectSeq(ForwardOrder, Enabled)

\* The handler call made by the step, if the step made one.
LastCall == calls[Len(calls)]
MadeCall == run.pc # "idle" /\ calls' # calls

\* C11: while a revert point is pending (a forward handler has called RevertTo
\* and returned nil), the next handler called is a revert handler, never a
\* forward or cleanup handler, and the loop turn that follows enters the
\* revert pass, also when the stage was the last one.
C11_RevertBeforeForward ==
    [][ (revertPoint # NoPoint /\ run.pc # "idle")
        => /\ MadeCall => calls'[Len(calls')].kind \in {"revert", "pass"}
           /\ (run.pc = "loop" /\ run' # run) => run'.pc = "revert" ]_vars

\* The last stage's forward handler called RevertTo and returned nil, and the
\* next loop turn has entered the revert pass.
C11_Witness ==
    /\ run.pc = "revert" /\ run.j = 0
    /\ currentStage = NumStages
    /\ revertPoint # NoPoint
    /\ calls # <<>>
    /\ LastCall.kind = "forward" /\ LastCall.stage = NumStages - 1 /\ LastCall.ok

\* C12: the step that ends a full revert pass sets prevRevertPoint to the
\* revert point it honoured, clears revertPoint and invalidBlock and goes on
\* with the forward pass at stage 0; and every handler called after the pass
\* in the same cycle gets firstCycle = false.
C12_AfterRevertPass ==
    /\ [][ (run.pc = "revert" /\ run'.pc = "forward")
           => /\ revertPoint # NoPoint
              /\ prevRevertPoint' = revertPoint
              /\ revertPoint' = NoPoint
              /\ invalidBlock' = EmptyHash
              /\ currentStage' = 0 ]_vars
    /\ [](\A p, q \in 1 .. Len(calls) :
             (p < q /\ calls[p].kind = "pass") => ~calls[q].firstCycle)

\* A cycle started with firstCycle = true whose revert pass has ended and
\* whose first stage has been run again.
C12_Witness ==
    /\ prevRevertPoint # NoPoint /\ revertPoint = NoPoint /\ invalidBlock = EmptyHash
    /\ Len(calls) >= 3
    /\ calls[1].firstCycle
    /\ calls[Len(calls) - 1].kind = "pass"
    /\ LastCall.kind = "forward" /\ LastCall.stage = 0 /\ ~LastCall.firstCycle

\* C13: a forward or revert handler that returned an error is the last
\* handler called in its cycle, and Run has returned an error to its caller.
C13_HandlerErrorAborts ==
    \A a \in 1 .. Len(calls) :
        (calls[a].kind \in {"forward", "revert"} /\ ~calls[a].ok)
        => (a = Len(calls) /\ run.pc = "idle" /\ run.result = "err")

\* A revert handler failed after a forward handler had asked for the revert.
C13_Witness ==
    /\ Len(calls) >= 2
    /\ LastCall.kind = "revert" /\ ~LastCall.ok
    /\ calls[1].kind = "forward" /\ calls[1].ok
    /\ run.result = "err"

EngineSpecInit ==
    /\ RMInit
    /\ EngineInit
    /\ BodiesInit
    /\ RedownloadRest

EngineNext ==
    \/ \E i \in Stages, d \in BOOLEAN : SetDisabled(i, d)
    \/ \E fc \in BOOLEAN : Run(fc)
    \/ LoopTurn
    \/ RevertSkip
    \/ \E ok \in BOOLEAN, np \in BlockNums : RevertCall(ok, np)
    \/ RevertPassEnd
    \/ ForwardSkip
    \/ \E ok, rv \in BOOLEAN, rp \in BlockNums, h \in Hashes, np \in BlockNums :
          ForwardCall(ok, rv, rp, h, np)
    \/ Done
    \/ \E ok \in BOOLEAN : CleanUpTurn(ok)
    \/ RunEnd

EngineSpec == EngineSpecInit /\ [][EngineNext]_vars

(***************************************************************************)
(* Bodies stage: the download manager                                      *)
(***************************************************************************)
Lowest(S) == CHOOSE x \in S : \A y \in S : x <= y

\* downloadManager.GetNextBatch: a batch from the retry set if there is one,
\* else from the unassigned block numbers, else the empty batch; the batch
\* handed out is in flight.
GetNextBatch(g) ==
    IF g.retries # {}
    THEN LET bn == Lowest(g.retries) IN
         [batch |-> {bn},
          g |-> [g EXCEPT !.retries = @ \ {bn}, !.processing = @ \cup {bn}]]
    ELSE IF g.todo # {}
    THEN LET bn == Lowest(g.todo) IN
         [batch |-> {bn},
          g |-> [g EXCEPT !.todo = @ \ {bn}, !.processing = @ \cup {bn}]]
    ELSE [batch |-> {}, g |-> g]

\* downloadManager.HandleRequestError: the batch goes to the retry set.
HandleRequestError(g, bns) ==
    [g EXCEPT !.processing = @ \ bns, !.retries = @ \cup bns]

\* downloadManager.HandleRequestResult: the batch is delivered.
HandleRequestResult(g, bns) ==
    [g EXCEPT !.processing = @ \ bns, !.done = @ \cup bns]

(***************************************************************************)
(* Bodies stage: operations                                                *)
(***************************************************************************)
\* cleanAllBlockDBs failing at worker k: the databases before k are cleared.
\* k = NumWorkers + 1 is the call that succeeds.
cleanAllBlockDBs(db, k) == [w \in Workers |-> IF w < k THEN {} ELSE db[w]]

\* StageBodies.Exec with invalidBlockRevert = false, from its entry to the
\* start of runDownloadLoop (worker pool started) or to an early return.
\*   fail: the database operation that fails, if the call gets to it: "begin"
\*   (db.BeginRw), "view" (CreateView) or "clean" (cleanAllBlockDBs, at worker
\*   k); "none" for no failure.
Exec(initSync, isEpochChain, internalTx, fail, k, currentHead, maxHeight, targetHeight) ==
    LET base == [IdleExec EXCEPT !.n = exec.n + 1, !.internalTx = internalTx,
                                 !.target = targetHeight]
        ret(r) == [base EXCEPT !.pc = "ret", !.result = r]
        fresh == bprogress <= currentHead
        currProgress == IF fresh THEN currentHead ELSE bprogress
    IN
    /\ exec.pc \in {"idle", "ret"}
    /\ exec.n < MaxExecs
    /\ (fail = "clean") = (k <= NumWorkers)
    /\ batchChan' = [q |-> <<>>, closed |-> FALSE]
    /\ IF ~initSync \/ isEpochChain
       THEN exec' = ret("nil") /\ UNCHANGED <<gbm, blockDB>>
       ELSE IF internalTx /\ fail = "begin"
       THEN exec' = ret("err") /\ UNCHANGED <<gbm, blockDB>>
       ELSE IF currentHead >= maxHeight
       THEN exec' = ret("nil") /\ UNCHANGED <<gbm, blockDB>>
       ELSE IF fail = "view"
       THEN exec' = ret("err") /\ UNCHANGED <<gbm, blockDB>>
       ELSE IF fresh /\ fail = "clean"
       THEN exec' = ret("err") /\ blockDB' = cleanAllBlockDBs(blockDB, k) /\ UNCHANGED gbm
       ELSE /\ blockDB' = IF fresh THEN cleanAllBlockDBs(blockDB, NumWorkers + 1) ELSE blockDB
            /\ IF currProgress >= targetHeight
               THEN exec' = ret("nil") /\ UNCHANGED gbm
               ELSE /\ gbm' = newDownloadManager(currProgress, targetHeight)
                    /\ exec' = [base EXCEPT !.pc = "loop"]
    /\ UNCHANGED <<bctx, worker, bprogress, rev, rmVars, engVars, rdVars>>

\* The context of Exec is cancelled.
CtxCancel ==
    /\ ~bctx
    /\ exec.pc \notin {"idle", "panic"}
    /\ bctx' = TRUE
    /\ UNCHANGED <<exec, gbm, batchChan, worker, blockDB, bprogress, rev, rmVars, engVars, rdVars>>

\* runDownloadLoop, one turn of the producer loop up to the send: the select
\* on ctx.Done(), GetNextBatch and fetchBlockHashes (hashesOk: it returned the
\* hashes of the batch; otherwise the producer panics, and the panic runs the
\* deferred function of runDownloadLoop before it goes on).
ProducerTurn(hashesOk) ==
    /\ exec.pc = "loop"
    /\ IF bctx
       THEN /\ hashesOk
            /\ exec' = [exec EXCEPT !.pc = "drain", !.observed = TRUE]
            /\ UNCHANGED gbm
       ELSE LET r == GetNextBatch(gbm) IN
            /\ gbm' = r.g
            /\ IF r.batch = {}
               THEN hashesOk /\ exec' = [exec EXCEPT !.pc = "drain"]
               ELSE IF hashesOk
               THEN exec' = [exec EXCEPT !.pc = "send", !.batch = r.batch]
               ELSE exec' = [exec EXCEPT !.pc = "drain", !.panicking = TRUE]
    /\ UNCHANGED <<bctx, batchChan, worker, blockDB, bprogress, rev, rmVars, engVars, rdVars>>

\* `batchChan <- blockTask`: blocks while the channel (capacity concurrency)
\* is full.
ProducerSend ==
    /\ exec.pc = "send"
    /\ Len(batchChan.q) < NumWorkers
    /\ batchChan' = [batchChan EXCEPT !.q = Append(@, exec.batch)]
    /\ exec' = [exec EXCEPT !.pc = "loop", !.batch = {}, !.sends = @ + 1,
                            !.sendsAfter = IF exec.observed THEN @ + 1 ELSE @]
    /\ UNCHANGED <<bctx, gbm, worker, blockDB, bprogress, rev, rmVars, engVars, rdVars>>

\* A worker of the pool takes a batch from the channel (`for batch := range
\* batchChan`) and runBlockWorker issues GetRawBlocksByHashes for it.
WorkerTake(w) ==
    /\ exec.pc \in {"loop", "send", "drain", "wait"}
    /\ worker[w] = {}
    /\ batchChan.q # <<>>
    /\ worker' = [worker EXCEPT ![w] = Head(batchChan.q)]
    /\ batchChan' = [batchChan EXCEPT !.q = Tail(@)]
    /\ exec' = [exec EXCEPT !.requests = @ + 1]
    /\ UNCHANGED <<bctx, gbm, blockDB, bprogress, rev, rmVars, engVars, rdVars>>

\* runBlockWorker after the transport call returned.  outcome "err": a request
\* error or an invalid response, reported with HandleRequestError; "ok": the
\* blocks are saved in the worker's database and reported with
\* HandleRequestResult; "savefail": saveBlocks failed and the worker panics.
WorkerResult(w, outcome) ==
    /\ exec.pc \in {"loop", "send", "drain", "wait"}
    /\ worker[w] # {}
    /\ worker' = [worker EXCEPT ![w] = {}]
    /\ IF outcome = "err"
       THEN /\ exec.errs < MaxWorkerErrs
            /\ gbm' = HandleRequestError(gbm, worker[w])
            /\ exec' = [exec EXCEPT !.errs = @ + 1]
            /\ UNCHANGED blockDB
       ELSE IF outcome = "ok"
       THEN /\ gbm' = HandleRequestResult(gbm, worker[w])
            /\ blockDB' = [blockDB EXCEPT ![w] = @ \cup worker[w]]
            /\ UNCHANGED exec
       ELSE /\ exec' = [exec EXCEPT !.pc = "panic", !.result = "panic"]
            /\ UNCHANGED <<gbm, blockDB>>
    /\ UNCHANGED <<bctx, batchChan, bprogress, rev, rmVars, engVars, rdVars>>

\* The deferred function of runDownloadLoop: close(batchChan) ...
CloseChan ==
    /\ exec.pc = "drain"
    /\ batchChan' = [batchChan EXCEPT !.closed = TRUE]
    /\ exec' = [exec EXCEPT !.pc = "wait"]
    /\ UNCHANGED <<bctx, gbm, worker, blockDB, bprogress, rev, rmVars, engVars, rdVars>>

\* ... and wg.Wait(): every worker has left its range loop.  Then
\* runDownloadLoop returns to Exec, or the producer's panic goes on.
WaitWorkers ==
    /\ exec.pc = "wait"
    /\ batchChan.q = <<>>
    /\ \A w \in Workers : worker[w] = {}
    /\ exec' = IF exec.panicking THEN [exec EXCEPT !.pc = "panic", !.result = "panic"]
               ELSE [exec EXCEPT !.pc = "save"]
    /\ UNCHANGED <<bctx, gbm, batchChan, worker, blockDB, bprogress, rev, rmVars, engVars, rdVars>>

\* StageState.Update(tx, bn): persists bn as the progress of the stage.
stageStateUpdate(p, bn) == bn

\* The end of Exec: saveProgress(ctx, s, targetHeight, tx), whose error is
\* logged only, then tx.Commit() if the transaction is Exec's own, then
\* return nil.  The progress written is persisted unless the commit fails.
SaveAndReturn(saveOk, commitOk) ==
    /\ exec.pc = "save"
    /\ commitOk \/ exec.internalTx
    /\ exec' = [exec EXCEPT !.pc = "ret", !.saveFailed = ~saveOk,
                            !.result = IF commitOk THEN "nil" ELSE "err"]
    /\ bprogress' = IF saveOk /\ commitOk THEN stageStateUpdate(bprogress, exec.target)
                    ELSE bprogress
    /\ UNCHANGED <<bctx, gbm, batchChan, worker, blockDB, rev, rmVars, engVars, rdVars>>

\* RevertState.Done(tx): marks the revert state done.
revertStateDone(u) == [u EXCEPT !.done = TRUE]

\* StageBodies.CleanUp: cleanAllBlockDBs, failing at worker k or succeeding
\* (k = NumWorkers + 1).
CleanUp(k) ==
    /\ exec.pc \in {"idle", "ret"}
    /\ blockDB' = cleanAllBlockDBs(blockDB, k)
    /\ UNCHANGED <<exec, bctx, gbm, batchChan, worker, bprogress, rev, rmVars, engVars, rdVars>>

\* A Revert that leaves the persisted progress alone.
RevertKeepsProgress(internalTx, fail, k, currentHead) ==
    /\ exec.pc \in {"idle", "ret"}
    /\ rev.n < MaxBodiesReverts
    /\ (fail = "clean") = (k <= NumWorkers)
    /\ (fail \in {"begin", "commit"}) => internalTx
    /\ blockDB' = cleanAllBlockDBs(blockDB, k)
    /\ rev' = [n |-> rev.n + 1, head |-> currentHead, before |-> bprogress,
               result |-> IF fail = "none" THEN "nil" ELSE "err", done |-> fail = "none"]
    /\ UNCHANGED <<bprogress, exec, bctx, gbm, batchChan, worker, rmVars, engVars, rdVars>>

\* StageBodies.Revert: cleanAllBlockDBs, then s.Update(tx, currentHead) and
\* u.Done(tx) in the transaction given or begun, committed if it was begun
\* here.  fail: the step that fails: "clean" (cleanAllBlockDBs, at worker k),
\* "begin" (db.BeginRw), "update" (s.Update), "done" (u.Done), "commit"
\* (tx.Commit); "none" for no failure.  A failed call returns the error; the
\* deferred tx.Rollback() drops what was written through a transaction Revert
\* began itself, while the progress s.Update wrote through the caller's
\* transaction stays there when u.Done fails afterwards.
Revert(internalTx, fail, k, currentHead) ==
    /\ exec.pc \in {"idle", "ret"}
    /\ rev.n < MaxBodiesReverts
    /\ (fail = "clean") = (k <= NumWorkers)
    /\ (fail \in {"begin", "commit"}) => internalTx
    /\ blockDB' = cleanAllBlockDBs(blockDB, k)
    /\ bprogress' = IF fail = "none" \/ (fail = "done" /\ ~internalTx)
                    THEN stageStateUpdate(bprogress, currentHead)
                    ELSE bprogress
    /\ LET u == [n |-> rev.n + 1, head |-> currentHead, before |-> bprogress,
                 result |-> IF fail = "none" THEN "nil" ELSE "err", done |-> FALSE]
       IN rev' = IF fail = "none" THEN revertStateDone(u) ELSE u
    /\ UNCHANGED <<exec, bctx, gbm, batchChan, worker, rmVars, engVars, rdVars>>

BodiesSpecInit ==
    /\ RMInit
    /\ EngineRest
    /\ BodiesInit
    /\ RedownloadRest

BodiesNext ==
    \/ \E initSync, isEpochChain, internalTx \in BOOLEAN,
          fail \in {"none", "begin", "view", "clean"}, k \in 1 .. (NumWorkers + 1),
          currentHead, maxHeight, targetHeight \in Heights :
          Exec(initSync, isEpochChain, internalTx, fail, k, currentHead, maxHeight,
               targetHeight)
    \/ CtxCancel
    \/ \E hashesOk \in BOOLEAN : ProducerTurn(hashesOk)
    \/ ProducerSend
    \/ \E w \in Workers : WorkerTake(w)
    \/ \E w \in Workers, outcome \in {"ok", "err", "savefail"} : WorkerResult(w, outcome)
    \/ CloseChan
    \/ WaitWorkers
    \/ \E saveOk, commitOk \in BOOLEAN : SaveAndReturn(saveOk, commitOk)
    \/ \E internalTx \in BOOLEAN,
          fail \in {"none", "clean", "begin", "update", "done", "commit"},
          k \in 1 .. (NumWorkers + 1), currentHead \in Heights :
          Revert(internalTx, fail, k, currentHead)
    \/ \E k \in 1 .. (NumWorkers + 1) : CleanUp(k)

BodiesSpec == BodiesSpecInit /\ [][BodiesNext]_vars

(***************************************************************************)
(* Bodies stage: claims                                                    *)
(***************************************************************************)
\* C14: when the producer of the bulk download has observed the cancellation
\* of the context, no batch is sent to the workers afterwards and Exec returns
\* the cancellation error, not nil.
C14_CancelReturnsCancelled ==
    (exec.pc = "ret" /\ exec.observed)
    => (exec.sendsAfter = 0 /\ exec.result = "cancelled")

\* C15: when saveProgress failed at the end of the bulk download, Exec
\* returns an error.
C15_SaveFailureReturnsError ==
    (exec.pc = "ret" /\ exec.saveFailed) => exec.result = "err"

(***************************************************************************)
(* Stream-count preflight and bad-block re-download: operations            *)
(***************************************************************************)
\* checkHaveEnoughStreams: an error iff there are fewer streams than
\* config.MinStreams.
checkHaveEnoughStreams(numStreams, min) ==
    IF numStreams < min THEN "err" ELSE "nil"

CheckHaveEnoughStreams ==
    /\ preflight' = checkHaveEnoughStreams(nstreams, minStreams)
    /\ UNCHANGED <<minStreams, nstreams, redl, txBlocks, rmVars, engVars, bodVars>>

\* Streams join and leave the protocol: NumStreams() changes.
StreamsChange(n) ==
    /\ n # nstreams
    /\ nstreams' = n
    /\ UNCHANGED <<minStreams, preflight, redl, txBlocks, rmVars, engVars, bodVars>>

\* StageBodies.Exec with invalidBlockRevert = true, from its entry to the head
\* of badBlockDownloadLoop or to an early return.  beginOk: db.BeginRw
\* succeeds, if Exec gets to it.
ExecBadBlock(initSync, isEpochChain, internalTx, beginOk, bn, bad) ==
    LET base == [IdleRedl EXCEPT !.n = redl.n + 1, !.internalTx = internalTx,
                                 !.bn = bn, !.bad = bad]
    IN
    /\ redl.pc \in {"idle", "ret"}
    /\ redl.n < MaxRedownloads
    /\ beginOk \/ internalTx
    /\ txBlocks' = {}
    /\ IF ~initSync \/ isEpochChain
       THEN redl' = [base EXCEPT !.pc = "ret", !.result = "nil"]
       ELSE IF internalTx /\ ~beginOk
       THEN redl' = [base EXCEPT !.pc = "ret", !.result = "err"]
       ELSE redl' = [base EXCEPT !.pc = "loop"]
    /\ UNCHANGED <<minStreams, nstreams, preflight, rmVars, engVars, bodVars>>

\* The context of the re-download is cancelled, at the head of the loop or
\* while downloadRawBlocks is waiting for the transport.
RedownloadCtxCancel ==
    /\ ~bctx
    /\ redl.pc \in {"loop", "call"}
    /\ bctx' = TRUE
    /\ UNCHANGED <<exec, gbm, batchChan, worker, blockDB, bprogress, rev, rmVars, engVars, rdVars>>

\* The answers of the transport and the outcomes of
\* blockDBs[0].Update(ctx, func(_tx) { saveBlocks(ctx, tx, ...) }) on them.
\* The answer is not validated before it is saved.
\*   "ok"          one block and its signature, saved
\*   "empty"       no block (blockBytes empty, or its entry nil): saveBlocks
\*                 puts nothing and returns nil
\*   "beginfail"   Update fails before the closure runs
\*   "putfail"     the Put of the block fails
\*   "sigfail"     the Put of the signature fails, after the block was put
\*   "commitfail"  Update fails to commit _tx
\*   "oob"         blockBytes has an entry and sigBytes has none: sigBytes[0]
\*                 is out of range and saveBlocks panics
\*   "oobput"      blockBytes has more entries than sigBytes or the batch: the
\*                 first block is put, then the index is out of range
UpdateOutcomes ==
    {"ok", "empty", "beginfail", "putfail", "sigfail", "commitfail", "oob", "oobput"}

\* The outcome of the Update: the closure writes through Exec's tx, not
\* through _tx, so the block goes to txBlocks whenever saveBlocks put it, and
\* nothing is written to the worker database.  Yields [put, tx, db, err,
\* panic]: saveBlocks put the block, the blocks in Exec's tx, worker
\* database 0, errU # nil, saveBlocks panicked.
updateBlockDB0(tx, db, bn, upd) ==
    LET put == upd \in {"ok", "sigfail", "commitfail", "oobput"} IN
    [put |-> put,
     tx |-> IF put THEN tx \cup {bn} ELSE tx,
     db |-> db,
     err |-> upd \in {"beginfail", "putfail", "sigfail", "commitfail"},
     panic |-> upd \in {"oob", "oobput"}]

\* A re-download that takes the response of any stream.
isBadStreamNever(stid, bad) == FALSE

\* redownloadBadBlock: `for _, id := range s.state.invalidBlock.StreamID
\* { if id == stid { ... } }`.
isBadStream(stid, bad) == stid \in bad

\* redownloadBadBlock, the head of a turn of badBlockDownloadLoop: the
\* NumStreams() check, then downloadRawBlocks is called and waits for the
\* transport.  When the loop is left, Exec returns, and its deferred
\* tx.Rollback() drops what was written through a transaction Exec began
\* itself.
RedownloadTurn ==
    /\ redl.pc = "loop"
    /\ IF nstreams = 0
       THEN /\ redl' = [redl EXCEPT !.pc = "ret", !.result = "err", !.noStreams = TRUE]
            /\ txBlocks' = IF redl.internalTx THEN {} ELSE txBlocks
       ELSE /\ redl' = [redl EXCEPT !.pc = "call"]
            /\ UNCHANGED txBlocks
    /\ UNCHANGED <<minStreams, nstreams, preflight, bodVars, rmVars, engVars>>

\* redownloadBadBlock, the rest of the turn, once downloadRawBlocks returned.
\*   outcome  of downloadRawBlocks: "cancelled" (context.Canceled or
\*            DeadlineExceeded), "err" (another error) or "ok"; the transport
\*            decides, whether or not the context is cancelled by then
\*   stid     the stream the transport used
\*   upd      the answer and the outcome of saving it
RedownloadAnswer(outcome, stid, upd) ==
    LET u == updateBlockDB0(txBlocks, blockDB[1], redl.bn, upd)
        called == [redl EXCEPT !.pc = "loop", !.calls = (@ + 1) % 2]
        leave(r, tx) ==
            /\ redl' = r
            /\ txBlocks' = IF redl.internalTx THEN {} ELSE tx
    IN
    /\ redl.pc = "call"
    /\ IF outcome = "cancelled"
       THEN /\ redl' = called
            /\ UNCHANGED <<txBlocks, blockDB>>
       ELSE IF outcome = "err"
       THEN /\ redl' = [called EXCEPT !.failed = @ \cup {stid}]
            /\ UNCHANGED <<txBlocks, blockDB>>
       ELSE IF isBadStream(stid, redl.bad)
       THEN /\ redl' = [called EXCEPT !.failed = @ \cup {stid}, !.retried = TRUE]
            /\ UNCHANGED <<txBlocks, blockDB>>
       ELSE LET r == [called EXCEPT !.savedFrom = IF u.put THEN @ \cup {stid} ELSE @] IN
            /\ blockDB' = [blockDB EXCEPT ![1] = u.db]
            /\ IF u.panic
               THEN leave([r EXCEPT !.pc = "panic", !.result = "panic"], u.tx)
               ELSE IF u.err
               THEN redl' = r /\ txBlocks' = u.tx
               ELSE leave([r EXCEPT !.pc = "ret", !.result = "nil"], u.tx)
    /\ UNCHANGED <<minStreams, nstreams, preflight, exec, bctx, gbm, batchChan, worker,
                   bprogress, rev, rmVars, engVars>>

RedownloadSpecInit ==
    /\ RMInit
    /\ EngineRest
    /\ BodiesInit
    /\ RedownloadInit

RedownloadNext ==
    \/ CheckHaveEnoughStreams
    \/ \E n \in 0 .. NumStreams : StreamsChange(n)
    \/ \E initSync, isEpochChain, internalTx, beginOk \in BOOLEAN, bn \in Heights,
          bad \in SUBSET StreamIDs :
          ExecBadBlock(initSync, isEpochChain, internalTx, beginOk, bn, bad)
    \/ RedownloadCtxCancel
    \/ RedownloadTurn
    \/ \E outcome \in {"cancelled", "err", "ok"}, stid \in StreamIDs, upd \in UpdateOutcomes :
          RedownloadAnswer(outcome, stid, upd)

RedownloadSpec == RedownloadSpecInit /\ [][RedownloadNext]_vars

\* The re-download loop keeps running and the transport answers every call.
RedownloadFairSpec ==
    /\ RedownloadSpec
    /\ WF_vars(RedownloadTurn)
    /\ WF_vars(\E outcome \in {"cancelled", "err", "ok"}, stid \in StreamIDs,
                  upd \in UpdateOutcomes : RedownloadAnswer(outcome, stid, upd))

(***************************************************************************)
(* Stream-count preflight: claims                                          *)
(***************************************************************************)
\* C23: with config.MinStreams = 0 and no stream at all, the preflight
\* checkHaveEnoughStreams returns an error.
C23_PreflightRefusesZeroStreams ==
    [][(CheckHaveEnoughStreams /\ minStreams = 0 /\ nstreams = 0)
       => preflight' = "err"]_vars

(***************************************************************************)
(* Bodies stage: claims on the forward handler and the revert              *)
(***************************************************************************)
\* C24: a call of Exec (bulk download, no database failure) that finds the
\* current head at or above the target height of the cycle returns nil,
\* issues no transport call and leaves the persisted progress and every
\* worker block database as they were.
C24_HeadAtTargetChangesNothing ==
    [][\A internalTx \in BOOLEAN, currentHead, maxHeight, targetHeight \in Heights :
         (/\ currentHead >= targetHeight
          /\ Exec(TRUE, FALSE, internalTx, "none", NumWorkers + 1, currentHead, maxHeight,
                  targetHeight))
         => (/\ exec'.pc = "ret"
             /\ exec'.result = "nil"
             /\ exec'.requests = 0
             /\ bprogress' = bprogress
             /\ blockDB' = blockDB)]_vars

C27_AllBlocksSaved ==
    [][(/\ exec.pc = "save"
        /\ exec'.pc = "ret"
        /\ exec'.result = "nil"
        /\ bprogress' = exec.target
        /\ ~bctx)
       => (/\ gbm'.retries = {}
           /\ \A bn \in gbm'.todo \cup gbm'.retries \cup gbm'.processing \cup gbm'.done :
                  \E w \in Workers : bn \in blockDB'[w])]_vars

\* The goroutines of the bulk download keep running: the producer, the
\* workers taking batches, and the deferred close and wait.  A worker's
\* GetRawBlocksByHashes has no timeout of its own, so nothing makes it return.
BodiesFairSpec ==
    /\ BodiesSpec
    /\ WF_vars(\E hashesOk \in BOOLEAN : ProducerTurn(hashesOk))
    /\ WF_vars(ProducerSend)
    /\ \A w \in Workers : WF_vars(WorkerTake(w))
    /\ WF_vars(CloseChan)
    /\ WF_vars(WaitWorkers)

\* C31: Exec saves its progress and returns only after the worker channel was
\* closed and emptied and every worker has finished its batch; once it is
\* there, nothing is written to a worker block database and no entry of the
\* download manager changes until the next call; and every exit of the producer loop, the one
\* on cancellation included, gets to the save or to a panic.
C31_DrainBarrier ==
    /\ [](exec.pc \in {"save", "ret", "idle"}
           => (batchChan.q = <<>> /\ \A w \in Workers : worker[w] = {}))
    /\ [](exec.pc = "save" => batchChan.closed)
    /\ [][(exec.pc \in {"save", "ret"} /\ exec'.n = exec.n /\ rev' = rev)
          => (gbm' = gbm /\ \A w \in Workers : blockDB'[w] \subseteq blockDB[w])]_vars
    /\ (exec.pc = "drain") ~> (exec.pc \in {"save", "ret", "panic"})

(***************************************************************************)
(* Bad-block re-download: claims                                           *)
(***************************************************************************)
\* C26: when the context is cancelled while Exec is in the re-download loop
\* and the protocol has at least one stream, the loop ends and Exec returns
\* (unless the streams all leave in the meantime).
C26_CancelEndsRedownload ==
    (bctx /\ redl.pc \in {"loop", "call"} /\ nstreams >= 1)
    ~> (redl.pc \in {"ret", "panic"} \/ nstreams = 0)

\* C29: when the re-download loop was left with success, the block is in the
\* Blocks bucket of worker database 0, committed, whether Exec was given a
\* transaction or began its own.
C29_RedownloadCommitted ==
    (redl.pc = "ret" /\ redl.result = "nil" /\ redl.savedFrom # {})
    => redl.bn \in blockDB[1]

\* C30: in the re-download loop no response of a recorded bad-block stream is
\* saved; such a response marks its stream failed and the loop tries again;
\* a turn of the loop that finds no stream at all ends it with an error.
C30_BadStreamNeverSaved ==
    /\ [](redl.savedFrom \cap redl.bad = {})
    /\ [](redl.noStreams => (redl.pc = "ret" /\ redl.result = "err"))
    /\ [][\A stid \in StreamIDs, upd \in UpdateOutcomes :
             (RedownloadAnswer("ok", stid, upd) /\ stid \in redl.bad)
             => (/\ stid \in redl'.failed
                 /\ redl'.pc = "loop"
                 /\ txBlocks' = txBlocks
                 /\ blockDB' = blockDB)]_vars
    /\ [][(redl.pc = "loop" /\ redl' # redl /\ nstreams = 0)
          => (redl'.pc = "ret" /\ redl'.result = "err")]_vars

\* C30: a bad-block stream answered and was marked failed, the loop tried
\* again, and the block was then saved from a stream that is not recorded.
C30_Witness ==
    /\ redl.pc = "ret"
    /\ redl.result = "nil"
    /\ redl.retried
    /\ redl.bad # {}
    /\ redl.failed \cap redl.bad # {}
    /\ redl.savedFrom # {}

=============================================================================
